---- MODULE Spec2Model ----
(***************************************************************************)
(* Model of the acquisition engine of ni-acquisition-app:                  *)
(*   MeasurementHandler (src/measurement_handler.py) - start/stop, the     *)
(*   worker thread _acquire_loop and the sliding buffers;                  *)
(*   MainApp (src/main.py) - the GUI thread, which is the only caller of   *)
(*   the handler and the receiver of the queued data_ready signal.         *)
(*                                                                         *)
(* Threads.  The GUI thread runs one handler at a time (callerpc); every   *)
(* successful start() spawns one worker thread, numbered by the start that *)
(* spawned it (wpc[w]).  The steps of a thread are the points at which the *)
(* other thread can observe or change shared fields.                       *)
(*                                                                         *)
(* Arrays.  numpy arrays are objects: np.roll returns a NEW array, while   *)
(* `a[:] = 0` and `a[-k:] = v` write INTO the array.  buf_id names the     *)
(* array objects self.time_buffer / self.data_buffer currently refer to;   *)
(* a published snapshot carries the id of the arrays it refers to, so an   *)
(* in-place write to those arrays is seen through the snapshot.            *)
(*                                                                         *)
(* Time stamps are kept as integer sample indices n standing for the float *)
(* n / sample_rate (division by the positive constant sample_rate is       *)
(* monotone and injective on these integers).                              *)
(***************************************************************************)
EXTENDS Integers, Sequences, FiniteSets, TLC

\* ---- program constants (scaled down: the code has 100, 60 and 1000) ----
sample_rate == 1
WindowSeconds == 3
BatchCap == 2
max_samples == sample_rate * WindowSeconds

\* ---- bounds of the model ----
NumChannels == 2
MaxStarts == 2
MaxIdx == max_samples + 1
MaxAvail == BatchCap + 1
MaxQueue == 2
MaxClock == MaxStarts - 1
MaxTdmsChannels == 2
MaxTdmsLen == 2
MaxParts == 5

\* ---- src/tdms_handler.py: wf_increment = 1.0 when no channel declares one; the
\* values a channel may declare are different from it ----
DefaultIncrement == 1
Increments == {2, 3}

Channels == 1..NumChannels
Workers == 1..MaxStarts

VARIABLES
  acquiring,       \* self.acquiring
  stop_event,      \* self.stop_event (threading.Event)
  task,            \* self.task: 0 is None, else the id of a nidaqmx.Task
  reader,          \* self.reader: 0 is None, else the task whose stream it reads
  tdms_file_path,  \* self.tdms_file_path: <<>> is None
  time_buffer,     \* contents of the array self.time_buffer refers to
  data_buffer,     \* contents of the array self.data_buffer refers to
  buf_id,          \* identity of the array objects the two fields refer to
  hw,              \* state of every hardware task ever created
  hwpos,           \* number of samples per channel read so far from each task's stream
  now,             \* the second the wall clock showed when last read
  nstart,          \* number of start() calls that passed the guard (session number)
  callerpc,        \* GUI thread: "idle" (event loop) or its position inside start()
  calls,           \* the last two handler calls of the GUI thread and their outcome
  wpc,             \* worker thread w: position in _acquire_loop
  widx,            \* worker thread w: local idx
  wk,              \* worker thread w: local num_to_read
  nfAfterStop,     \* history: folds made in this session with the stop event set
  logged_path,     \* history: the path the last successfully started task logs to
  queue,           \* queued data_ready emissions not yet delivered to the GUI thread
  curve_data,      \* the arrays the plot curves hold (last setData)
  lastDeliv,       \* history: what update_plot saw at the latest delivery
  tdms_file,       \* what is stored at the path given to TdmsHandler
  tdms,            \* what the caller of TdmsHandler(file_path) gets
  config_parts,    \* the stripped fields of the channel's line in config.ini
  channel_dict,    \* the channel's entry of self.channel_dict, or the error of its parse
  ai_channel,      \* the channel add_ai_voltage_chan was asked for, or the error
  btn_toggle,      \* MainApp: the text of self.btn_toggle
  btn_load,        \* MainApp: self.btn_load is enabled
  btn_export       \* MainApp: self.btn_export is enabled

handlerVars == <<acquiring, stop_event, task, reader, tdms_file_path>>
bufferVars == <<time_buffer, data_buffer, buf_id>>
workerVars == <<wpc, widx, wk>>
consumerVars == <<queue, curve_data, lastDeliv>>
acqVars == <<acquiring, stop_event, task, reader, tdms_file_path, time_buffer,
             data_buffer, buf_id, hw, hwpos, now, nstart, callerpc, calls, wpc, widx, wk,
             nfAfterStop, logged_path, queue, curve_data, lastDeliv>>
loaderVars == <<tdms_file, tdms>>
configVars == <<config_parts, channel_dict, ai_channel>>
guiVars == <<btn_toggle, btn_load, btn_export>>
\* what no method of MeasurementHandler and no step of its worker assigns
pureVars == <<tdms_file, tdms, config_parts, channel_dict, ai_channel,
              btn_toggle, btn_load, btn_export>>
vars == <<acquiring, stop_event, task, reader, tdms_file_path, time_buffer,
          data_buffer, buf_id, hw, hwpos, now, nstart, callerpc, calls, wpc, widx, wk,
          nfAfterStop, logged_path, queue, curve_data, lastDeliv, tdms_file, tdms, config_parts,
          channel_dict, ai_channel, btn_toggle, btn_load, btn_export>>

\* ---------------------------------------------------------------------------
\* numpy helpers
\* ---------------------------------------------------------------------------
Min(a, b) == IF a < b THEN a ELSE b

ZeroSample == <<0, 0, 0>>

\* np.zeros(n)
Zeros(n) == [i \in 1..n |-> 0]

\* np.zeros((n_ch, n))
ZeroMatrix(n) == [c \in Channels |-> [i \in 1..n |-> ZeroSample]]

\* a roll that leaves the array as it is
Roll_NoShift(s, k) == s

\* np.roll(s, -k)
Roll(s, k) == [i \in 1..Len(s) |-> s[((i - 1 + k) % Len(s)) + 1]]

\* s[-k:] = vals   (k = Len(vals) >= 1)
WriteTail(s, vals) ==
  [i \in 1..Len(s) |->
     IF i > Len(s) - Len(vals) THEN vals[i - (Len(s) - Len(vals))] ELSE s[i]]

\* time stamps that restart at 0 in every batch
Timestamps_NoOffset(idx, k) == [i \in 1..k |-> i - 1]

\* (idx + np.arange(k)) / sample_rate, as sample indices
Timestamps(idx, k) == [i \in 1..k |-> idx + (i - 1)]

\* what read_many_sample puts into temp_data: the next k samples of every
\* channel of the stream of task r; a sample is <<task, channel, stream index>>
TempData(r, idx, k) == [c \in Channels |-> [i \in 1..k |-> <<r, c, idx + (i - 1)>>]]

\* a fold that writes the new samples before it rolls
FoldData_WriteThenRoll(d, temp, k) ==
  [c \in Channels |-> Roll(WriteTail(d[c], temp[c]), k)]

\* lines 93-94
FoldData(d, temp, k) == [c \in Channels |-> WriteTail(Roll(d[c], k), temp[c])]

\* lines 96-97
FoldTime(t, idx, k) == WriteTail(Roll(t, k), Timestamps(idx, k))

\* _get_tdms_filename at clock reading t: the name has one-second resolution
get_tdms_filename(t) == <<"measurement", t>>

\* samples read so far by all workers together
RECURSIVE SumIdx(_)
SumIdx(n) == IF n = 0 THEN 0 ELSE widx[n] + SumIdx(n - 1)

Alive(w) == wpc[w] \in {"while", "poll", "read", "publish", "task_stop", "task_close", "clear"}
AliveWorkers == {w \in Workers : Alive(w)}

\* `a[:] = 0` on the arrays named id, as seen through a reference r to arrays
ZeroedIfAlias(r, id) ==
  IF r.id = id THEN [r EXCEPT !.t = Zeros(Len(r.t)), !.d = ZeroMatrix(Len(r.t))] ELSE r

LastCall == IF calls = <<>> THEN [op |-> "none", result |-> "none"] ELSE calls[Len(calls)]
PushCall(c) == IF Len(calls) < 2 THEN Append(calls, c) ELSE <<calls[2], c>>
SetResult(res) == [calls EXCEPT ![Len(calls)].result = res]

\* ---------------------------------------------------------------------------
\* TdmsHandler (src/tdms_handler.py)
\* ---------------------------------------------------------------------------
\* a channel of a container: the number of samples in ch.data and ch.properties
\* as a list of <<key, value>> pairs; its name is its position in the group
ChannelShapes ==
  [len : 0..MaxTdmsLen,
   properties : {<<>>} \cup {<< <<"wf_increment", v>> >> : v \in Increments}]

Groups == UNION {[1..n -> ChannelShapes] : n \in 0..MaxTdmsChannels}

\* a second group, which _load never looks at
OtherGroup == << [len |-> MaxTdmsLen, properties |-> <<>>] >>

\* what TdmsFile.read finds at the path: nothing it can open, or a container
\* with zero, one or two groups
TdmsFiles ==
  {[readable |-> FALSE, groups |-> <<>>]}
  \cup {[readable |-> TRUE, groups |-> <<>>]}
  \cup {[readable |-> TRUE, groups |-> <<g>>] : g \in Groups}
  \cup {[readable |-> TRUE, groups |-> <<g, OtherGroup>>] : g \in Groups}

\* "wf_increment" in ch.properties
HasProperty(ch, key) == \E i \in DOMAIN ch.properties : ch.properties[i][1] = key

\* ch.properties[key]
Property(ch, key) ==
  ch.properties[CHOOSE i \in DOMAIN ch.properties : ch.properties[i][1] = key][2]

\* ch.data
ChannelData(ch) == [i \in 1..ch.len |-> i]

\* lines 15-19: the increment of the first channel, in file order, that declares one
wf_increment(group) ==
  LET declaring == {i \in DOMAIN group : HasProperty(group[i], "wf_increment")} IN
  IF declaring = {}
  THEN DefaultIncrement
  ELSE Property(group[CHOOSE i \in declaring : \A j \in declaring : i <= j], "wf_increment")

\* line 23: np.arange(num_samples) * wf_increment
TimeAxis(num_samples, inc) == [i \in 1..num_samples |-> (i - 1) * inc]

\* what the caller of TdmsHandler(file_path) is left with when the constructor raises
Raised(e) == [error |-> e, time_axis |-> <<>>, channel_data |-> <<>>]

\* a loader that takes a group without channels for an empty recording
TdmsHandler_EmptyAxis(f) ==
  IF ~f.readable THEN Raised("IOError")
  ELSE IF f.groups = <<>> THEN Raised("IndexError")
  ELSE LET group == f.groups[1]
           channel_data == [i \in DOMAIN group |-> ChannelData(group[i])]
       IN [error |-> "none",
           time_axis |-> IF channel_data = <<>> THEN <<>>
                         ELSE TimeAxis(Len(channel_data[1]), wf_increment(group)),
           channel_data |-> channel_data]

\* TdmsHandler.__init__ and _load (lines 5-23) on a path holding f.  Opening a
\* path that cannot be opened raises a subclass of OSError, whose alias is IOError.
TdmsHandler(f) ==
  IF ~f.readable THEN Raised("IOError")                        \* line 12
  ELSE IF f.groups = <<>> THEN Raised("IndexError")            \* line 13
  ELSE LET group == f.groups[1]
           channel_data == [i \in DOMAIN group |-> ChannelData(group[i])]  \* line 21
       IN IF channel_data = <<>> THEN Raised("StopIteration")  \* line 22
          ELSE [error |-> "none",
                time_axis |-> TimeAxis(Len(channel_data[1]), wf_increment(group)),
                channel_data |-> channel_data]

NotLoaded == [error |-> "not called", time_axis |-> <<>>, channel_data |-> <<>>]

\* ---------------------------------------------------------------------------
\* Channel configuration: MeasurementHandler.__init__ (lines 50-59) and the
\* channel creation of start_acquisition (lines 123-136)
\* ---------------------------------------------------------------------------
\* the stripped fields of a line of the [channels] section
Tokens == {"ai0", "RSE", "Scale1", "10", "2.5", "V", ""}

\* val.split(",") yields at least one part
PartLists == UNION {[1..n -> Tokens] : n \in 1..MaxParts}

\* the tokens int() accepts, and their values
IntLiterals == {"10"}
IntOf(tok) == IF tok = "10" THEN 10 ELSE 0

\* the member names of TerminalConfiguration among the tokens
TerminalNames == {"RSE"}

NoInfo == [channel |-> "", terminal |-> "", scale |-> <<>>, max |-> 0, unit |-> ""]

\* lines 52-59: the dictionary literal, its values evaluated in order; scale is
\* <<>> for None (line 56), which needs fewer than three parts
ParseChannel(parts) ==
  IF Len(parts) < 2 THEN [error |-> "IndexError", info |-> NoInfo]            \* parts[1]
  ELSE IF Len(parts) < 4 THEN [error |-> "IndexError", info |-> NoInfo]       \* parts[3]
  ELSE IF parts[4] \notin IntLiterals THEN [error |-> "ValueError", info |-> NoInfo]
  ELSE IF Len(parts) < 5 THEN [error |-> "IndexError", info |-> NoInfo]       \* parts[4]
  ELSE [error |-> "none",
        info |-> [channel |-> parts[1], terminal |-> parts[2],
                  scale |-> IF Len(parts) > 2 THEN <<parts[3]>> ELSE <<>>,
                  max |-> IntOf(parts[4]), unit |-> parts[5]]]

NoChannel == [physical_channel |-> "", units |-> "", custom_scale_name |-> <<>>,
              max_val |-> <<>>]

\* lines 124-136: getattr(TerminalConfiguration, ...) and add_ai_voltage_chan; an
\* argument that is not passed is <<>>
CreateChannel(info) ==
  IF info.terminal \notin TerminalNames
  THEN [error |-> "AttributeError", chan |-> NoChannel]
  ELSE IF info.scale \notin {<<>>, <<"">>}          \* None and '' are falsy
  THEN [error |-> "none",
        chan |-> [physical_channel |-> info.channel, units |-> "FROM_CUSTOM_SCALE",
                  custom_scale_name |-> info.scale, max_val |-> <<info.max>>]]
  ELSE [error |-> "none",
        chan |-> [physical_channel |-> info.channel, units |-> "VOLTS",
                  custom_scale_name |-> <<>>, max_val |-> <<>>]]

NotParsed == [error |-> "not called", info |-> NoInfo]
NotCreated == [error |-> "not called", chan |-> NoChannel]

\* ---------------------------------------------------------------------------
\* Init: MeasurementHandler.__init__ and MainApp.__init__
\* ---------------------------------------------------------------------------
AppInit ==
  /\ acquiring = FALSE
  /\ stop_event = FALSE
  /\ task = 0
  /\ reader = 0
  /\ tdms_file_path = <<>>
  /\ time_buffer = Zeros(max_samples)
  /\ data_buffer = ZeroMatrix(max_samples)
  /\ buf_id = <<0, 0>>
  /\ hw = [i \in Workers |-> "none"]
  /\ hwpos = [i \in Workers |-> 0]
  /\ now = 0
  /\ nstart = 0
  /\ callerpc = "idle"
  /\ calls = <<>>
  /\ wpc = [w \in Workers |-> "none"]
  /\ widx = [w \in Workers |-> 0]
  /\ wk = [w \in Workers |-> 0]
  /\ nfAfterStop = 0
  /\ logged_path = <<>>
  /\ queue = <<>>
  /\ curve_data = <<>>
  /\ lastDeliv = [id |-> <<0, 0>>, last |-> 0]

\* no container has been loaded
LoaderIdle ==
  /\ tdms_file = [readable |-> FALSE, groups |-> <<>>]
  /\ tdms = NotLoaded

\* the handler was constructed from a line that parses; no channel asked for yet
ConfigIdle ==
  /\ config_parts = <<"ai0", "RSE", "", "10", "V">>
  /\ channel_dict = ParseChannel(config_parts)
  /\ ai_channel = NotCreated

\* MainApp.__init__ (src/main.py lines 69-78): the controls as they are built
GuiIdle ==
  /\ btn_toggle = "Start"
  /\ btn_load = TRUE
  /\ btn_export = FALSE

Init == AppInit /\ LoaderIdle /\ ConfigIdle /\ GuiIdle

\* ---------------------------------------------------------------------------
\* GUI thread: MeasurementHandler.start_acquisition
\* ---------------------------------------------------------------------------
\* a guard that lets a start through once a stop has been requested
StartRejected_UntilStopRequested == acquiring /\ ~stop_event

\* a start without the guard of line 112
StartRejected_Never == FALSE

\* line 112: the guard of start_acquisition
StartRejected == acquiring

\* a start that leaves the arrays as the last session left them
StartReset_KeepsBuffers(curves) ==
  /\ stop_event' = FALSE
  /\ \E t \in now..Min(now + 1, MaxClock) :
       /\ now' = t
       /\ tdms_file_path' = get_tdms_filename(t)
  /\ curve_data' = curves
  /\ UNCHANGED <<time_buffer, data_buffer, buf_id, queue>>

\* lines 115-119: clear the event, derive the path from the clock (which reads
\* the same second as at the previous start, or a later one), zero the arrays
\* in place; curves is what the plot curves hold when start() is called
StartReset(curves) ==
  /\ stop_event' = FALSE
  /\ \E t \in now..Min(now + 1, MaxClock) :
       /\ now' = t
       /\ tdms_file_path' = get_tdms_filename(t)
  /\ time_buffer' = Zeros(Len(time_buffer))
  /\ data_buffer' = ZeroMatrix(Len(time_buffer))
  /\ buf_id' = buf_id
  /\ queue' = [i \in DOMAIN queue |-> ZeroedIfAlias(queue[i], buf_id)]
  /\ curve_data' = [i \in DOMAIN curves |-> ZeroedIfAlias(curves[i], buf_id)]

\* lines 111-121: guard, reset, nidaqmx.Task(); what the call does to the
\* handler, the arrays and their holders
mh_start_acquisition(curves) ==
  /\ callerpc = "idle"
  /\ IF StartRejected
     THEN /\ calls' = PushCall([op |-> "start", result |-> "AlreadyRunning"])
          /\ curve_data' = curves
          /\ UNCHANGED <<handlerVars, bufferVars, hw, hwpos, now, nstart, callerpc,
                         nfAfterStop, logged_path, workerVars, queue, lastDeliv>>
     ELSE /\ nstart < MaxStarts
          /\ nstart' = nstart + 1
          /\ StartReset(curves)
          /\ \/ \* line 121: the task is created
                /\ task' = nstart + 1
                /\ hw' = [hw EXCEPT ![nstart + 1] = "created"]
                /\ callerpc' = "configure"
                /\ calls' = PushCall([op |-> "start", result |-> "pending"])
             \/ \* line 121: nidaqmx.Task() raises, outside the try block
                /\ UNCHANGED <<task, hw, callerpc>>
                /\ calls' = PushCall([op |-> "start", result |-> "raised"])
          /\ nfAfterStop' = 0
          /\ UNCHANGED <<acquiring, reader, hwpos, logged_path, workerVars, lastDeliv>>

\* MeasurementHandler.start_acquisition, called with the curves as they are
start_acquisition ==
  /\ mh_start_acquisition(curve_data)
  /\ UNCHANGED pureVars

ConfigSteps == {"add_ai_voltage_chan", "cfg_samp_clk_timing", "configure_logging", "task_start"}

\* lines 122-149 and 151-170: configuration, task.start(), Thread.start();
\* or an exception in one of the steps and the except block
mh_start_acquisition_configure ==
  /\ callerpc = "configure"
  /\ \/ /\ reader' = task
        /\ hw' = [hw EXCEPT ![task] = "started"]
        /\ wpc' = [wpc EXCEPT ![nstart] = "while"]
        /\ widx' = [widx EXCEPT ![nstart] = 0]
        /\ callerpc' = "set_acquiring"
        /\ logged_path' = tdms_file_path          \* line 142: configure_logging
        /\ UNCHANGED <<acquiring, task, calls, wk>>
     \/ \E step \in ConfigSteps :
        /\ reader' = IF step = "task_start" THEN task ELSE reader
        /\ hw' = [hw EXCEPT ![task] = "closed"]
        /\ task' = 0
        /\ acquiring' = FALSE
        /\ callerpc' = "idle"
        /\ calls' = SetResult("failed")
        /\ UNCHANGED <<workerVars, logged_path>>
  /\ UNCHANGED <<stop_event, tdms_file_path, bufferVars, hwpos, now, nstart, nfAfterStop,
                 consumerVars>>

start_acquisition_configure ==
  /\ mh_start_acquisition_configure
  /\ UNCHANGED pureVars

\* line 150
mh_start_acquisition_finish ==
  /\ callerpc = "set_acquiring"
  /\ acquiring' = TRUE
  /\ callerpc' = "idle"
  /\ calls' = SetResult("started")
  /\ UNCHANGED <<stop_event, task, reader, tdms_file_path, bufferVars, hw, hwpos, now,
                 nstart, nfAfterStop, logged_path, workerVars, consumerVars>>

start_acquisition_finish ==
  /\ mh_start_acquisition_finish
  /\ UNCHANGED pureVars

\* ---------------------------------------------------------------------------
\* GUI thread: MeasurementHandler.stop_acquisition (lines 171-173)
\* ---------------------------------------------------------------------------
\* a stop that sets the event whether or not a session is running
stop_acquisition_Unguarded ==
  /\ callerpc = "idle"
  /\ stop_event' = TRUE
  /\ calls' = PushCall([op |-> "stop", result |-> IF acquiring THEN "set" ELSE "ignored"])
  /\ UNCHANGED <<acquiring, task, reader, tdms_file_path, bufferVars, hw, hwpos, now,
                 nstart, callerpc, nfAfterStop, logged_path, workerVars, consumerVars>>
  /\ UNCHANGED pureVars

\* a stop that marks the session not running at once
stop_acquisition_ClearsRunning ==
  /\ callerpc = "idle"
  /\ IF acquiring
     THEN /\ stop_event' = TRUE
          /\ acquiring' = FALSE
          /\ calls' = PushCall([op |-> "stop", result |-> "set"])
     ELSE /\ UNCHANGED <<stop_event, acquiring>>
          /\ calls' = PushCall([op |-> "stop", result |-> "ignored"])
  /\ UNCHANGED <<task, reader, tdms_file_path, bufferVars, hw, hwpos, now,
                 nstart, callerpc, nfAfterStop, logged_path, workerVars, consumerVars>>
  /\ UNCHANGED pureVars

\* what the call does to the handler
mh_stop_acquisition ==
  /\ callerpc = "idle"
  /\ IF acquiring
     THEN /\ stop_event' = TRUE
          /\ calls' = PushCall([op |-> "stop", result |-> "set"])
     ELSE /\ stop_event' = stop_event
          /\ calls' = PushCall([op |-> "stop", result |-> "ignored"])
  /\ UNCHANGED <<acquiring, task, reader, tdms_file_path, bufferVars, hw, hwpos, now,
                 nstart, callerpc, nfAfterStop, logged_path, workerVars, consumerVars>>

stop_acquisition ==
  /\ mh_stop_acquisition
  /\ UNCHANGED pureVars

\* MeasurementHandler.is_acquiring (lines 175-176)
is_acquiring == acquiring

\* ---------------------------------------------------------------------------
\* GUI thread: delivery of one queued data_ready emission to MainApp.update_plot
\* ---------------------------------------------------------------------------
update_plot ==
  /\ callerpc = "idle"
  /\ queue # <<>>
  /\ curve_data' = <<Head(queue)>>
  /\ queue' = Tail(queue)
  /\ lastDeliv' = [id |-> Head(queue).id, last |-> Head(queue).t[Len(Head(queue).t)]]
  /\ UNCHANGED <<handlerVars, bufferVars, hw, hwpos, now, nstart, callerpc, calls,
                 nfAfterStop, logged_path, workerVars>>
  /\ UNCHANGED pureVars

\* ---------------------------------------------------------------------------
\* Worker thread w: MeasurementHandler._acquire_loop
\* ---------------------------------------------------------------------------
\* a loop head that never looks at the event
acquire_loop_while_IgnoresStop(w) ==
  /\ wpc[w] = "while"
  /\ wpc' = [wpc EXCEPT ![w] = "poll"]
  /\ UNCHANGED <<handlerVars, bufferVars, hw, hwpos, now, nstart, callerpc, calls,
                 nfAfterStop, logged_path, widx, wk,
                 consumerVars>>
  /\ UNCHANGED pureVars

\* line 86
acquire_loop_while(w) ==
  /\ wpc[w] = "while"
  /\ wpc' = [wpc EXCEPT ![w] = IF stop_event THEN "task_stop" ELSE "poll"]
  /\ UNCHANGED <<handlerVars, bufferVars, hw, hwpos, now, nstart, callerpc, calls,
                 nfAfterStop, logged_path, widx, wk,
                 consumerVars>>
  /\ UNCHANGED pureVars

\* a poll that goes on to the read whatever it found
acquire_loop_poll_AlwaysReads(w) ==
  /\ wpc[w] = "poll"
  /\ \/ \E available \in 0..MaxAvail :
          LET num_to_read == Min(available, BatchCap) IN
          /\ SumIdx(MaxStarts) + num_to_read <= MaxIdx
          /\ num_to_read > 0 => Len(queue) < MaxQueue
          /\ wk' = [wk EXCEPT ![w] = num_to_read]
          /\ wpc' = [wpc EXCEPT ![w] = "read"]
     \/ /\ wpc' = [wpc EXCEPT ![w] = "crashed"]
        /\ wk' = wk
  /\ UNCHANGED <<handlerVars, bufferVars, hw, hwpos, now, nstart, callerpc, calls,
                 nfAfterStop, logged_path, widx, consumerVars>>
  /\ UNCHANGED pureVars

\* lines 87-89: avail_samp_per_chan, num_to_read; the read of the property may raise
acquire_loop_poll(w) ==
  /\ wpc[w] = "poll"
  /\ \/ \E available \in 0..MaxAvail :
          LET num_to_read == Min(available, BatchCap) IN
          /\ SumIdx(MaxStarts) + num_to_read <= MaxIdx
          /\ num_to_read > 0 => Len(queue) < MaxQueue
          /\ wk' = [wk EXCEPT ![w] = num_to_read]
          /\ wpc' = [wpc EXCEPT ![w] = IF num_to_read > 0 THEN "read" ELSE "while"]
     \/ /\ wpc' = [wpc EXCEPT ![w] = "crashed"]
        /\ wk' = wk
  /\ UNCHANGED <<handlerVars, bufferVars, hw, hwpos, now, nstart, callerpc, calls,
                 nfAfterStop, logged_path, widx, consumerVars>>
  /\ UNCHANGED pureVars

\* a fold that advances idx by one whatever the size of the batch
Fold_AdvancesByOne(w) ==
  /\ data_buffer' = FoldData(data_buffer, TempData(reader, hwpos[reader], wk[w]), wk[w])
  /\ hwpos' = [hwpos EXCEPT ![reader] = hwpos[reader] + wk[w]]
  /\ time_buffer' = FoldTime(time_buffer, widx[w], wk[w])
  /\ buf_id' = <<w, widx[w] + 1>>
  /\ widx' = [widx EXCEPT ![w] = widx[w] + 1]
  /\ nfAfterStop' = IF stop_event THEN nfAfterStop + 1 ELSE nfAfterStop

\* lines 93-98: the fold of temp_data into new arrays
Fold(w) ==
  /\ data_buffer' = FoldData(data_buffer, TempData(reader, hwpos[reader], wk[w]), wk[w])
  /\ hwpos' = [hwpos EXCEPT ![reader] = hwpos[reader] + wk[w]]
  /\ time_buffer' = FoldTime(time_buffer, widx[w], wk[w])
  /\ buf_id' = <<w, widx[w] + wk[w]>>
  /\ widx' = [widx EXCEPT ![w] = widx[w] + wk[w]]
  /\ nfAfterStop' = IF stop_event THEN nfAfterStop + 1 ELSE nfAfterStop

\* lines 90-98: read_many_sample (which may raise, e.g. on its timeout), then the fold
acquire_loop_read(w) ==
  /\ wpc[w] = "read"
  /\ \/ /\ Fold(w)
        /\ wpc' = [wpc EXCEPT ![w] = "publish"]
     \/ /\ wpc' = [wpc EXCEPT ![w] = "crashed"]
        /\ UNCHANGED <<bufferVars, hwpos, widx, nfAfterStop>>
  /\ UNCHANGED <<handlerVars, hw, now, nstart, callerpc, calls, wk, logged_path,
                 consumerVars>>
  /\ UNCHANGED pureVars

\* a handler whose callback is still the one registered first (src/main.py line 31)
stream_callback_Direct == "update_plot"

\* self._stream_callback after MainApp.__init__ (src/main.py lines 31-37): the
\* registration of update_plot is replaced by that of the signal's emit, and the
\* signal is connected to update_plot, a slot of an object of the GUI thread
stream_callback == "data_ready.emit"

\* the arguments of the callback: references to the two arrays.  pt and pd record
\* the contents at the time of the call.
Snapshot == [id |-> buf_id, t |-> time_buffer, d |-> data_buffer,
             pt |-> time_buffer, pd |-> data_buffer]

\* a publish that goes straight on to the next poll, past the loop condition
acquire_loop_publish_SkipsCheck(w) ==
  /\ wpc[w] = "publish"
  /\ queue' = Append(queue, Snapshot)
  /\ wpc' = [wpc EXCEPT ![w] = "poll"]
  /\ UNCHANGED <<handlerVars, bufferVars, hw, hwpos, now, nstart, callerpc, calls,
                 nfAfterStop, logged_path, widx, wk, curve_data, lastDeliv>>
  /\ UNCHANGED pureVars

\* lines 100-101: self._stream_callback(self.time_buffer, self.data_buffer) in the
\* worker thread.  An emit from a thread other than the receiver's posts a queued
\* call and returns; a plain function would run here, in the worker.
acquire_loop_publish(w) ==
  /\ wpc[w] = "publish"
  /\ IF stream_callback = "data_ready.emit"
     THEN /\ queue' = Append(queue, Snapshot)
          /\ UNCHANGED <<curve_data, lastDeliv>>
     ELSE /\ curve_data' = <<Snapshot>>
          /\ lastDeliv' = [id |-> buf_id, last |-> time_buffer[Len(time_buffer)]]
          /\ queue' = queue
  /\ wpc' = [wpc EXCEPT ![w] = "while"]
  /\ UNCHANGED <<handlerVars, bufferVars, hw, hwpos, now, nstart, callerpc, calls,
                 nfAfterStop, logged_path, widx, wk>>
  /\ UNCHANGED pureVars

\* a worker that marks the session not running before it releases the task
acquire_loop_task_stop_ClearsFirst(w) ==
  /\ wpc[w] = "task_stop"
  /\ acquiring' = FALSE
  /\ hw' = [hw EXCEPT ![task] = "stopped"]
  /\ wpc' = [wpc EXCEPT ![w] = "task_close"]
  /\ UNCHANGED <<stop_event, task, reader, tdms_file_path, bufferVars, hwpos, now, nstart,
                 callerpc, calls, nfAfterStop, logged_path, widx, wk, consumerVars>>
  /\ UNCHANGED pureVars

\* line 103
acquire_loop_task_stop(w) ==
  /\ wpc[w] = "task_stop"
  /\ hw' = [hw EXCEPT ![task] = "stopped"]
  /\ wpc' = [wpc EXCEPT ![w] = "task_close"]
  /\ UNCHANGED <<handlerVars, bufferVars, hwpos, now, nstart, callerpc, calls,
                 nfAfterStop, logged_path,
                 widx, wk,
                 consumerVars>>
  /\ UNCHANGED pureVars

\* a worker that ends without closing the task
acquire_loop_task_close_Skipped(w) ==
  /\ wpc[w] = "task_close"
  /\ wpc' = [wpc EXCEPT ![w] = "clear"]
  /\ UNCHANGED <<handlerVars, bufferVars, hw, hwpos, now, nstart, callerpc, calls,
                 nfAfterStop, logged_path,
                 widx, wk,
                 consumerVars>>
  /\ UNCHANGED pureVars

\* line 104
acquire_loop_task_close(w) ==
  /\ wpc[w] = "task_close"
  /\ hw' = [hw EXCEPT ![task] = "closed"]
  /\ wpc' = [wpc EXCEPT ![w] = "clear"]
  /\ UNCHANGED <<handlerVars, bufferVars, hwpos, now, nstart, callerpc, calls,
                 nfAfterStop, logged_path,
                 widx, wk,
                 consumerVars>>
  /\ UNCHANGED pureVars

\* line 105, after which the thread ends
acquire_loop_clear(w) ==
  /\ wpc[w] = "clear"
  /\ acquiring' = FALSE
  /\ wpc' = [wpc EXCEPT ![w] = "done"]
  /\ UNCHANGED <<stop_event, task, reader, tdms_file_path, bufferVars, hw, hwpos, now, nstart,
                 callerpc, calls, nfAfterStop, logged_path, widx, wk, consumerVars>>
  /\ UNCHANGED pureVars

acquire_loop(w) ==
  \/ acquire_loop_while(w)
  \/ acquire_loop_poll(w)
  \/ acquire_loop_read(w)
  \/ acquire_loop_publish(w)
  \/ acquire_loop_task_stop(w)
  \/ acquire_loop_task_close(w)
  \/ acquire_loop_clear(w)

Next ==
  \/ start_acquisition
  \/ start_acquisition_configure
  \/ start_acquisition_finish
  \/ stop_acquisition
  \/ update_plot
  \/ \E w \in Workers : acquire_loop(w)

Spec == Init /\ [][Next]_vars

\* the operating system does not starve the worker threads: if some worker can
\* take a step, a worker step is eventually taken
FairSpec == Spec /\ WF_vars(\E w \in Workers : acquire_loop(w))

\* ---------------------------------------------------------------------------
\* A load: MainApp.load_tdms (src/main.py lines 144-168) constructs a
\* TdmsHandler on whatever the chosen path holds
\* ---------------------------------------------------------------------------
TdmsInit ==
  /\ AppInit /\ ConfigIdle /\ GuiIdle
  /\ tdms_file \in TdmsFiles
  /\ tdms = NotLoaded

TdmsHandler_init ==
  /\ tdms = NotLoaded
  /\ tdms' = TdmsHandler(tdms_file)
  /\ UNCHANGED <<acqVars, tdms_file, configVars, guiVars>>

TdmsNext == TdmsHandler_init

TdmsSpec == TdmsInit /\ [][TdmsNext]_vars

\* ---------------------------------------------------------------------------
\* The configuration of one channel: its line is parsed when the handler is
\* constructed, the channel is created when an acquisition is started
\* ---------------------------------------------------------------------------
ConfigInit ==
  /\ AppInit /\ LoaderIdle /\ GuiIdle
  /\ config_parts \in PartLists
  /\ channel_dict = NotParsed
  /\ ai_channel = NotCreated

MeasurementHandler_init ==
  /\ channel_dict = NotParsed
  /\ channel_dict' = ParseChannel(config_parts)
  /\ UNCHANGED <<acqVars, loaderVars, config_parts, ai_channel, guiVars>>

add_ai_voltage_chan ==
  /\ channel_dict.error = "none"
  /\ ai_channel = NotCreated
  /\ ai_channel' = CreateChannel(channel_dict.info)
  /\ UNCHANGED <<acqVars, loaderVars, config_parts, channel_dict, guiVars>>

ConfigNext == MeasurementHandler_init \/ add_ai_voltage_chan

ConfigSpec == ConfigInit /\ [][ConfigNext]_vars

\* ---------------------------------------------------------------------------
\* The application: MainApp.toggle_acq (src/main.py lines 101-127) is the only
\* caller of start_acquisition and stop_acquisition
\* ---------------------------------------------------------------------------
\* lines 110-114
ShowRunning ==
  /\ btn_toggle' = "Stop"
  /\ btn_load' = FALSE
  /\ btn_export' = FALSE

\* lines 121-125
ShowIdle ==
  /\ btn_toggle' = "Start"
  /\ btn_load' = TRUE
  /\ btn_export' = TRUE

\* a click on the toggle control. Not acquiring (lines 102-109): create_curves
\* empties the curves and start_acquisition is called; the controls are not
\* touched before the call returns, and not at all when nidaqmx.Task() raises
\* out of it. Acquiring (lines 119-127): stop_acquisition, then the controls.
toggle_acq ==
  /\ IF ~is_acquiring
     THEN /\ mh_start_acquisition(<<>>)
          /\ UNCHANGED guiVars
     ELSE /\ mh_stop_acquisition
          /\ ShowIdle
  /\ UNCHANGED <<loaderVars, configVars>>

\* start_acquisition goes on inside toggle_acq; when its except block has
\* handled a failure it returns normally, and lines 110-118 follow
toggle_acq_configure ==
  /\ mh_start_acquisition_configure
  /\ IF callerpc' = "idle" THEN ShowRunning ELSE UNCHANGED guiVars
  /\ UNCHANGED <<loaderVars, configVars>>

\* start_acquisition returns after line 150, and lines 110-118 follow
toggle_acq_finish ==
  /\ mh_start_acquisition_finish
  /\ ShowRunning
  /\ UNCHANGED <<loaderVars, configVars>>

ToggleNext ==
  \/ toggle_acq
  \/ toggle_acq_configure
  \/ toggle_acq_finish
  \/ update_plot
  \/ \E w \in Workers : acquire_loop(w)

ToggleSpec == Init /\ [][ToggleNext]_vars

\* ---------------------------------------------------------------------------
\* Session states of the specification, read off the threads' positions
\* ---------------------------------------------------------------------------
StartInProgress == callerpc # "idle"
NoOpenHandle == \A i \in Workers : hw[i] \in {"none", "closed"}

\* ---------------------------------------------------------------------------
\* C1: at most one acquisition worker exists at any time; a start() issued
\* while a worker of an earlier start has not exited is rejected
\* (AlreadyRunning) and spawns no worker; two start() calls in succession, the
\* first of which started a session, leave one running session, at most one
\* worker and one rejection.
\* ---------------------------------------------------------------------------
C1_AtMostOneWorker == Cardinality(AliveWorkers) <= 1

C1_SecondStartRejected ==
  (Len(calls) = 2 /\ calls[1] = [op |-> "start", result |-> "started"]
                  /\ calls[2].op = "start")
    => /\ calls[2].result = "AlreadyRunning"
       /\ acquiring
       /\ Cardinality(AliveWorkers) <= 1

C1_BusyStartSpawnsNothing ==
  (start_acquisition /\ AliveWorkers # {})
    => /\ calls'[Len(calls')].result = "AlreadyRunning"
       /\ UNCHANGED <<workerVars, nstart, hw, hwpos, task>>

C1_OneWorker ==
  /\ [](C1_AtMostOneWorker /\ C1_SecondStartRejected)
  /\ [][C1_BusyStartSpawnsNothing]_vars

C1_Witness ==
  /\ calls = << [op |-> "start", result |-> "started"],
                [op |-> "start", result |-> "AlreadyRunning"] >>
  /\ Cardinality(AliveWorkers) = 1
  /\ acquiring

\* ---------------------------------------------------------------------------
\* C2: every fold into the sliding buffer is made by the worker of the current
\* session (the session of the latest buffer reset): the worker of an old
\* session never writes after the reset of a new one.
\* ---------------------------------------------------------------------------
C2_FoldByCurrentWorker ==
  \A w \in Workers :
    (wpc[w] = "read" /\ wpc'[w] = "publish") => w = nstart

C2_NoCrossSessionWrite == [][C2_FoldByCurrentWorker]_vars

C2_Witness ==
  /\ calls = << [op |-> "stop", result |-> "set"],
                [op |-> "start", result |-> "started"] >>
  /\ nstart = 2
  /\ buf_id[1] = 2
  /\ wpc[1] = "done"

\* ---------------------------------------------------------------------------
\* C3: stop() on a running session only sets the cancellation flag and returns
\* while the worker is still alive; every worker that is alive when the flag is
\* set eventually ends (given fair scheduling, and unless a DataSource call
\* raises), having stopped, then closed the task, and only then cleared
\* `acquiring`.
\* ---------------------------------------------------------------------------
C3_StopOnlySetsFlag ==
  (stop_acquisition /\ acquiring)
    => /\ stop_event'
       /\ callerpc' = "idle"
       /\ UNCHANGED <<acquiring, task, reader, hw, hwpos, workerVars, bufferVars>>

C3_ShutdownOrder ==
  \A w \in Workers :
    /\ wpc[w] \in {"task_stop", "task_close", "clear"} => acquiring
    /\ wpc[w] = "task_stop" => hw[w] = "started"
    /\ wpc[w] = "task_close" => hw[w] = "stopped"
    /\ wpc[w] = "clear" => hw[w] = "closed"
    /\ wpc[w] = "done" => hw[w] = "closed"

C3_ClearedLast ==
  \A w \in Workers :
    (wpc[w] # "done" /\ wpc'[w] = "done") => (hw[w] = "closed" /\ acquiring /\ ~acquiring')

C3_StopLeadsToIdle ==
  /\ [][C3_StopOnlySetsFlag /\ C3_ClearedLast]_vars
  /\ []C3_ShutdownOrder
  /\ (stop_event /\ AliveWorkers # {})
       ~> (AliveWorkers = {} /\ \A w \in Workers : wpc[w] \in {"none", "done", "crashed"})

C3_Witness ==
  /\ LastCall = [op |-> "stop", result |-> "set"]
  /\ wpc[1] = "done"
  /\ hw[1] = "closed"
  /\ ~acquiring

\* ---------------------------------------------------------------------------
\* C4: a start() that fails in a hardware configuration step (task creation
\* included) returns without raising, leaves the session not acquiring, with no
\* worker and no open hardware handle.
\* ---------------------------------------------------------------------------
StartFailed ==
  callerpc = "idle" /\ LastCall.op = "start" /\ LastCall.result \in {"failed", "raised"}

C4_FailedStartLeavesIdle ==
  StartFailed => /\ LastCall.result # "raised"
                 /\ ~acquiring
                 /\ AliveWorkers = {}
                 /\ NoOpenHandle

\* ---------------------------------------------------------------------------
\* C5: no state is reachable in which is_acquiring() is true, no worker exists,
\* no start() is in progress and a hardware handle is still open.
\* ---------------------------------------------------------------------------
C5_WorkerNeverLeavesRunning ==
  ~(is_acquiring /\ AliveWorkers = {} /\ ~StartInProgress /\ ~NoOpenHandle)

\* ---------------------------------------------------------------------------
\* C6: the arrays of a published snapshot, pending delivery or held by the
\* consumer, still have the contents they had when they were published.
\* ---------------------------------------------------------------------------
Unmodified(r) == r.t = r.pt /\ r.d = r.pd

C6_SnapshotsImmutable ==
  /\ \A i \in DOMAIN queue : Unmodified(queue[i])
  /\ \A i \in DOMAIN curve_data : Unmodified(curve_data[i])

\* ---------------------------------------------------------------------------
\* C7: the timestamp buffer always has length capacity and is non-decreasing,
\* and every row of the sample matrix has length capacity.
\* ---------------------------------------------------------------------------
NonDecreasing(s) == \A i \in 1..(Len(s) - 1) : s[i] <= s[i + 1]

C7_BufferShape ==
  /\ Len(time_buffer) = max_samples
  /\ NonDecreasing(time_buffer)
  /\ DOMAIN data_buffer = Channels
  /\ \A c \in Channels : Len(data_buffer[c]) = max_samples

C7_Witness ==
  /\ buf_id[2] >= max_samples
  /\ time_buffer[1] < time_buffer[max_samples]
  /\ time_buffer[max_samples] = buf_id[2] - 1

\* ---------------------------------------------------------------------------
\* C8: two snapshots of one session are delivered in the order of their
\* publication, and the last timestamp the consumer sees in the later one is
\* not smaller than the one it saw in the earlier one.
\* ---------------------------------------------------------------------------
C8_DeliveryStep ==
  (update_plot /\ Head(queue).id[1] = lastDeliv.id[1])
    => /\ Head(queue).id[2] > lastDeliv.id[2]
       /\ Head(queue).t[Len(Head(queue).t)] >= lastDeliv.last

C8_InOrderNonDecreasing == [][C8_DeliveryStep]_vars

\* ---------------------------------------------------------------------------
\* C9: is_acquiring() is true exactly in Running (as claimed); as amended, it
\* is true in Running and in Stopping and false in Idle, in Starting and after
\* a start() that failed.
\* ---------------------------------------------------------------------------
SessionState ==
  IF callerpc # "idle" THEN "Starting"
  ELSE IF nstart = 0 \/ wpc[nstart] = "done" THEN "Idle"
  ELSE IF wpc[nstart] \in {"none", "crashed"} THEN "Failed"
  ELSE IF stop_event THEN "Stopping"
  ELSE "Running"

C9_TrueExactlyInRunning == is_acquiring <=> SessionState = "Running"

C9_TrueInRunningAndStopping ==
  /\ SessionState \in {"Running", "Stopping"} => is_acquiring
  /\ SessionState \in {"Idle", "Starting"} => ~is_acquiring
  /\ (SessionState = "Failed" /\ wpc[nstart] = "none") => ~is_acquiring

C9_Witness == SessionState = "Stopping" /\ is_acquiring /\ Alive(nstart)

\* ---------------------------------------------------------------------------
\* C10: stop() while not acquiring changes nothing (flag, buffers, handle,
\* running flag, workers, snapshots), and every worker is spawned with the
\* cancellation flag clear, whatever stop() calls came before the start().
\* ---------------------------------------------------------------------------
C10_IdleStopFrame ==
  (stop_acquisition /\ ~acquiring)
    => UNCHANGED <<handlerVars, bufferVars, hw, hwpos, nstart, callerpc, workerVars,
                   queue, curve_data>>

C10_SpawnedWithFlagClear ==
  callerpc = "set_acquiring" => (~stop_event /\ wpc[nstart] \in {"while", "poll", "read", "publish", "crashed"})

C10_IdleStopIsNoOp == [][C10_IdleStopFrame]_vars /\ []C10_SpawnedWithFlagClear

C10_Witness ==
  /\ nstart = 2
  /\ Len(calls) = 2
  /\ calls[1] = [op |-> "stop", result |-> "ignored"]
  /\ calls[2].op = "start"
  /\ callerpc = "set_acquiring"
  /\ wpc[1] = "done"

\* ---------------------------------------------------------------------------
\* C11: a poll that finds no sample available goes back to the loop head without
\* reading: the stream position, the buffers, idx and the queue of emissions are
\* unchanged, and the read and the publish are only ever reached with
\* num_to_read > 0.
\* ---------------------------------------------------------------------------
C11_ZeroPollStep ==
  \A w \in Workers :
    (wpc[w] = "poll" /\ wpc'[w] \notin {"poll", "crashed"} /\ wk'[w] = 0)
    => /\ wpc'[w] = "while"
       /\ UNCHANGED <<bufferVars, hwpos, widx, queue, curve_data>>

C11_ZeroPollIsNoOp ==
  /\ [](\A w \in Workers : wpc[w] \in {"read", "publish"} => wk[w] > 0)
  /\ [][C11_ZeroPollStep]_vars

\* a worker back at the loop head after an empty poll that followed a fold
C11_Witness ==
  \E w \in Workers : wpc[w] = "while" /\ wk[w] = 0 /\ widx[w] > 0

\* ---------------------------------------------------------------------------
\* C12: in a session whose folds add up to idx samples, exactly the first
\* capacity - idx columns of the sample matrix are still the zeros the session
\* started with; once idx has reached capacity (capacity/k folds of size k) no
\* such column is left, every sample in the buffer was read from this session's
\* task and the timestamps, all written by the folds, are strictly increasing.
\* ---------------------------------------------------------------------------
StrictlyIncreasing(s) == \A i \in 1..(Len(s) - 1) : s[i] < s[i + 1]

C12_OriginalsEvicted ==
  nstart >= 1 =>
    /\ \A c \in Channels : \A j \in 1..max_samples :
         (data_buffer[c][j] = ZeroSample) <=> (j <= max_samples - widx[nstart])
    /\ widx[nstart] >= max_samples =>
         /\ \A c \in Channels : \A j \in 1..max_samples : data_buffer[c][j][1] = nstart
         /\ StrictlyIncreasing(time_buffer)

\* capacity folds of size 1: the snapshots after the first and the second fold
\* are with the consumer, the third fold has just been made
C12_Witness ==
  /\ nstart >= 1
  /\ wpc[nstart] = "publish"
  /\ buf_id = <<nstart, max_samples>>
  /\ curve_data # <<>> /\ curve_data[1].id = <<nstart, 1>>
  /\ queue # <<>> /\ queue[1].id = <<nstart, 2>>

\* ---------------------------------------------------------------------------
\* C13: at most one published snapshot is waiting for the consumer at any time
\* (a newer one replaces an older one that has not been consumed).
\* ---------------------------------------------------------------------------
C13_AtMostOnePending == Len(queue) <= 1

\* ---------------------------------------------------------------------------
\* C14: update_plot never runs in the worker thread.  A publish only posts the
\* snapshot to the GUI thread's event queue and takes the worker to its next
\* iteration, whatever the consumer has or has not processed; what the plot
\* holds changes only in a step of the GUI thread.
\* ---------------------------------------------------------------------------
WorkerStep == \E w \in Workers : wpc'[w] # wpc[w] /\ callerpc' = callerpc /\ calls' = calls

C14_PublishStep ==
  /\ \A w \in Workers :
       (wpc[w] = "publish" /\ wpc'[w] # "publish")
       => /\ queue' = Append(queue, Snapshot)
          /\ wpc'[w] = "while"
  /\ WorkerStep => UNCHANGED <<curve_data, lastDeliv>>
  /\ lastDeliv' # lastDeliv => (callerpc = "idle" /\ UNCHANGED workerVars)

C14_ConsumerOffWorkerThread ==
  /\ [](\A w \in Workers : wpc[w] = "publish" => ENABLED acquire_loop_publish(w))
  /\ [][C14_PublishStep]_vars

\* the worker is in its next iteration while the snapshot it has just published
\* is still waiting for the GUI thread
C14_Witness ==
  \E w \in Workers :
    /\ wpc[w] \in {"poll", "read"}
    /\ queue # <<>>
    /\ queue[Len(queue)].id = <<w, widx[w]>>

\* ---------------------------------------------------------------------------
\* C18: once idx >= capacity, slot j (from 0) of the timestamp buffer holds the
\* stamp of sample idx - capacity + j, so consecutive stamps are one sample
\* period apart, and column j of the sample matrix holds, for every channel,
\* the sample of the session's stream with that same index.
\* ---------------------------------------------------------------------------
C18_TrailingWindow ==
  (nstart >= 1 /\ widx[nstart] >= max_samples) =>
    \A j \in 1..max_samples :
      /\ time_buffer[j] = widx[nstart] - max_samples + (j - 1)
      /\ \A c \in Channels : data_buffer[c][j] = <<nstart, c, time_buffer[j]>>

\* a buffer that has wrapped: the first sample of the session is no longer in it
C18_Witness ==
  /\ nstart >= 1
  /\ widx[nstart] > max_samples
  /\ time_buffer[1] >= 1

\* ---------------------------------------------------------------------------
\* C19: after stop() has set the event the worker makes at most one more read
\* and fold (with its publish), those of the iteration it was in, and a worker
\* that evaluates the loop condition with the event set leaves the loop.
\* ---------------------------------------------------------------------------
C19_LoopHeadStep ==
  \A w \in Workers :
    (wpc[w] = "while" /\ stop_event /\ wpc'[w] # "while") => wpc'[w] = "task_stop"

C19_AtMostOneMoreIteration ==
  /\ [](stop_event => nfAfterStop <= 1)
  /\ [](\A w \in Workers : (stop_event /\ nfAfterStop = 1) => wpc[w] # "poll")
  /\ [][C19_LoopHeadStep]_vars

\* the event was set during an iteration; the worker finished that iteration
\* and has left the loop
C19_Witness ==
  /\ nstart >= 1
  /\ stop_event
  /\ nfAfterStop = 1
  /\ wpc[nstart] = "task_stop"

\* ---------------------------------------------------------------------------
\* C20: an iteration whose poll finds available > 0 reads min(available, batch
\* cap) samples per channel; the read advances idx by that number, so that idx
\* always equals the number of samples read from the session's stream; and the
\* iteration publishes one snapshot, made of the two arrays the fold has just
\* produced.
\* ---------------------------------------------------------------------------
C20_IterationStep ==
  \A w \in Workers :
    /\ (wpc[w] = "poll" /\ wpc'[w] \notin {"poll", "crashed"})
       => \E available \in 0..MaxAvail :
            /\ wk'[w] = Min(available, BatchCap)
            /\ (available > 0) <=> (wpc'[w] = "read")
    /\ (wpc[w] = "read" /\ wpc'[w] = "publish")
       => /\ hwpos'[reader] = hwpos[reader] + wk[w]
          /\ widx'[w] = widx[w] + wk[w]
          /\ queue' = queue
    /\ (wpc[w] = "publish" /\ wpc'[w] # "publish")
       => /\ Len(queue') = Len(queue) + 1
          /\ queue'[Len(queue')].id = <<w, widx[w]>>
          /\ queue'[Len(queue')].t = time_buffer
          /\ queue'[Len(queue')].d = data_buffer
          /\ wpc'[w] = "while"

C20_OneBatchOnePublish ==
  /\ [](\A w \in Workers : widx[w] = hwpos[w])
  /\ [](\A w \in Workers : wpc[w] = "publish" =>
          /\ buf_id = <<w, widx[w]>>
          /\ time_buffer[max_samples] = widx[w] - 1
          /\ \A c \in Channels : data_buffer[c][max_samples] = <<w, c, widx[w] - 1>>)
  /\ [](\A i, j \in DOMAIN queue : queue[i].id = queue[j].id => i = j)
  /\ [][C20_IterationStep]_vars

\* a second batch, of the full batch cap, has been folded and is about to be published
C20_Witness ==
  \E w \in Workers :
    /\ wpc[w] = "publish"
    /\ wk[w] = BatchCap
    /\ widx[w] > BatchCap

\* ---------------------------------------------------------------------------
\* C15: for every container that loads, the time axis is as long as every
\* returned channel array, and time_axis[i] = i * inc, where inc is the
\* wf_increment of the first channel in file order that declares one, and the
\* default increment when none does.
\* ---------------------------------------------------------------------------
C15_TimeAxisMatchesChannels ==
  tdms.error = "none" =>
    LET group == tdms_file.groups[1]
        declaring == {i \in DOMAIN group : group[i].properties # <<>>}
        inc == IF declaring = {}
               THEN DefaultIncrement
               ELSE group[CHOOSE i \in declaring : \A j \in declaring : i <= j].properties[1][2]
    IN /\ \A c \in DOMAIN tdms.channel_data :
            Len(tdms.channel_data[c]) = Len(tdms.time_axis)
       /\ \A i \in DOMAIN tdms.time_axis : tdms.time_axis[i] = (i - 1) * inc

\* ---------------------------------------------------------------------------
\* C16: a load of a container that has no group, or no channel in its first
\* group, fails with an error of the format kind, and a load of a path that
\* cannot be opened fails with IOError; in each case the caller gets no time
\* axis and no channel mapping.  The code has no exception class of its own:
\* the format kind is the IndexError of line 13 and the StopIteration of line 22.
\* ---------------------------------------------------------------------------
FileFormatErrors == {"IndexError", "StopIteration"}

Numbers == {"10", "2.5"}

ConfigSettled ==
  /\ channel_dict # NotParsed
  /\ channel_dict.error = "none" => ai_channel # NotCreated

C17_ChannelConfigForms ==
  ConfigSettled =>
    LET p == config_parts
        FourField == /\ Len(p) = 4
                     /\ p[1] # "" /\ p[2] # ""
                     /\ p[3] \in Numbers
        FiveField == /\ Len(p) = 5
                     /\ p[1] # "" /\ p[2] # "" /\ p[3] # ""
                     /\ p[4] \in Numbers
    IN IF FourField
       THEN /\ channel_dict.error = "none" /\ ai_channel.error = "none"
            /\ ai_channel.chan.units = "VOLTS"
            /\ ai_channel.chan.custom_scale_name = <<>>
            /\ ai_channel.chan.max_val # <<>>
       ELSE IF FiveField
       THEN /\ channel_dict.error = "none" /\ ai_channel.error = "none"
            /\ ai_channel.chan.units = "FROM_CUSTOM_SCALE"
            /\ ai_channel.chan.custom_scale_name = <<p[3]>>
            /\ ai_channel.chan.max_val # <<>>
       ELSE channel_dict.error # "none" \/ ai_channel.error # "none"

\* ---------------------------------------------------------------------------
\* C21: when the worker of a session starts to run, both buffers are all zeros
\* and its idx is 0; hence every snapshot of the session holds only zeros and
\* samples read from the session's own task, and the first time stamp the
\* session writes is 0.
\* ---------------------------------------------------------------------------
OwnOrZero(d, w) ==
  \A c \in Channels : \A j \in 1..Len(d[c]) : d[c][j] = ZeroSample \/ d[c][j][1] = w

C21_WorkerStartStep ==
  \A w \in Workers :
    (wpc[w] = "none" /\ wpc'[w] # "none")
    => /\ time_buffer' = Zeros(max_samples)
       /\ data_buffer' = ZeroMatrix(max_samples)
       /\ widx'[w] = 0

C21_SessionStartsFromZero ==
  /\ [](\A i \in DOMAIN queue :
          OwnOrZero(queue[i].pd, queue[i].id[1]) /\ OwnOrZero(queue[i].d, queue[i].id[1]))
  /\ [](\A i \in DOMAIN curve_data : OwnOrZero(curve_data[i].d, curve_data[i].id[1]))
  /\ []((nstart >= 1 /\ widx[nstart] \in 1..max_samples)
          => time_buffer[max_samples - widx[nstart] + 1] = 0)
  /\ [][C21_WorkerStartStep]_vars

\* a snapshot of a second session, whose predecessor had folded samples
C21_Witness ==
  /\ nstart = 2
  /\ widx[1] > 0
  /\ queue # <<>>
  /\ queue[Len(queue)].id[1] = 2

\* ---------------------------------------------------------------------------
\* C22: while a worker is polling, reading, stopping or closing the task, the
\* fields task and reader refer to that worker's task, and no step of the GUI
\* thread (a start() or a stop()) creates, replaces, closes or clears a task.
\* ---------------------------------------------------------------------------
UsesHandle(w) == wpc[w] \in {"while", "poll", "read", "publish", "task_stop", "task_close"}

GuiStep == callerpc' # callerpc \/ calls' # calls

C22_GuiLeavesHandle ==
  ((\E w \in Workers : UsesHandle(w)) /\ GuiStep) => UNCHANGED <<task, reader, hw>>

C22_HandleExclusive ==
  /\ [](\A w \in Workers : UsesHandle(w) => (task = w /\ reader = w))
  /\ [](\A w \in Workers : wpc[w] \in {"while", "poll", "read", "publish"} => hw[w] = "started")
  /\ [][C22_GuiLeavesHandle]_vars

\* a start() issued after the stop request, while the worker is still closing
\* the task, has been rejected
C22_Witness ==
  \E w \in Workers :
    /\ wpc[w] = "task_close"
    /\ stop_event
    /\ LastCall = [op |-> "start", result |-> "AlreadyRunning"]

\* ---------------------------------------------------------------------------
\* C23: two consecutive polls of a worker that both find no sample are
\* separated by a wait of the worker (a sleep or a blocking read with timeout).
\* The only step of the loop that can block is the read, and it is reached with
\* num_to_read > 0 only; so a poll that finds nothing must not come directly
\* after a poll that found nothing.
\* ---------------------------------------------------------------------------
\* the latest poll of w found nothing, and w has not read since
ZeroPollBefore(w) == wk[w] = 0 /\ widx[w] > 0

C23_NoSpinStep ==
  \A w \in Workers :
    (wpc[w] = "poll" /\ ZeroPollBefore(w)) => ~(wpc'[w] = "while" /\ wk'[w] = 0)

C23_ZeroPollsSeparatedByWait == [][C23_NoSpinStep]_vars

\* ---------------------------------------------------------------------------
\* C24: whenever no start() call is in progress and is_acquiring() is false,
\* every hardware task the handler created has been closed; so export_csv and
\* load_tdms, which return at once while is_acquiring() is true, read a
\* container only when no task is still logging.
\* ---------------------------------------------------------------------------
\* MainApp.load_tdms (src/main.py lines 149-151) gets past its guard
load_tdms_reads == callerpc = "idle" /\ ~is_acquiring

\* MainApp.export_csv (src/main.py lines 171-177) gets past its guard and, with
\* nothing loaded, opens the container of the recorded path
export_csv_reads == callerpc = "idle" /\ ~is_acquiring /\ tdms_file_path # <<>>

C24_NoReadWhileLogging ==
  /\ (~StartInProgress /\ ~is_acquiring) => NoOpenHandle
  /\ (load_tdms_reads \/ export_csv_reads) => NoOpenHandle

\* a session that logged samples has ended, and export would open its container
C24_Witness ==
  /\ export_csv_reads
  /\ nstart >= 1
  /\ wpc[nstart] = "done"
  /\ widx[nstart] > 0
  /\ hw[nstart] = "closed"
  /\ tdms_file_path = logged_path

\* ---------------------------------------------------------------------------
\* C25: tdms_file_path is changed only by a start() that succeeds. Once a
\* start() that failed during hardware configuration has returned, the
\* recorded path is what it was before the call: none, or the path the last
\* successfully started session logs to (export_csv opens the container of the
\* recorded path, so it then opens a container some session logged to).
\* ---------------------------------------------------------------------------
C25_PathChangedOnlyBySuccess ==
  (~StartInProgress /\ LastCall = [op |-> "start", result |-> "failed"])
    => tdms_file_path = logged_path

\* ---------------------------------------------------------------------------
\* C26: any two successfully started sessions of a handler log to distinct
\* container paths, also when the second is started within the clock second
\* in which the first was started. The clock never runs backwards, so it is
\* enough that the step which starts a session successfully gives it a path
\* other than the path of the last session started successfully before it.
\* ---------------------------------------------------------------------------
SessionStarts == callerpc = "configure" /\ callerpc' = "set_acquiring"

C26_NewPathStep == SessionStarts => logged_path' # logged_path

C26_DistinctPaths == [][C26_NewPathStep]_vars

\* ---------------------------------------------------------------------------
\* C27: after every toggle_acq call the toggle control shows "Stop", with load
\* and export disabled, only if an acquisition was started: whenever the GUI
\* thread is back in its event loop and no stop is pending, a control that
\* shows "Stop" or a disabled load or export control means is_acquiring().
\* ---------------------------------------------------------------------------
ShowsRunning == btn_toggle = "Stop" \/ ~btn_load

C27_StopShownOnlyWhenStarted ==
  (~StartInProgress /\ ~stop_event /\ ShowsRunning) => is_acquiring
====
